---- MODULE Spec2Model ----
(***************************************************************************)
(* mirugai/settings.py: the Settings record (pydantic BaseSettings), its   *)
(* three field validators and the two module-level helpers.                *)
(*                                                                         *)
(* Values.  A str is the sequence of its characters.  A string that names  *)
(* a path is kept split at "/" (so "/srv/app/" is <<"", "srv", "app", "">>)*)
(* and a Path is the sequence of its non-empty parts.  A ValueError is the *)
(* tuple of the arguments it was raised with.                              *)
(*                                                                         *)
(* Library behaviour the class relies on (pydantic, pydantic-settings):    *)
(* the sources are merged keyword arguments over environment variables     *)
(* over the environment file, which is read only when it is on disk; a     *)
(* field no source gives takes its default, and defaults are not           *)
(* validated; every supplied field is converted and validated and the      *)
(* errors of all fields are collected; the model is neither frozen nor     *)
(* validated on assignment, since Config sets neither option.  Environment *)
(* and file keys are matched to fields without regard to case, so a key    *)
(* is written as the name of its field.                                    *)
(*                                                                         *)
(* A behaviour follows one process: the environment it starts in, the      *)
(* import of the module, the environment file appearing or disappearing    *)
(* until Settings is constructed, the construction, and the assignments    *)
(* the holder of the instance makes afterwards.                            *)
(***************************************************************************)
EXTENDS Integers, Sequences, FiniteSets, TLC

VARIABLES pc, fs, environ, dotenv, warnings, kwargs, result, instance, built, errors

vars == <<pc, fs, environ, dotenv, warnings, kwargs, result, instance, built, errors>>

\* The most keys set over the process environment, the environment file and
\* the constructor's keyword arguments together.
MaxKeys == 2

\* ------------------------------------------------------------------ str

LowerCase == <<"a","b","c","d","e","f","g","h","i","j","k","l","m",
               "n","o","p","q","r","s","t","u","v","w","x","y","z">>

UpperCase == <<"A","B","C","D","E","F","G","H","I","J","K","L","M",
               "N","O","P","Q","R","S","T","U","V","W","X","Y","Z">>

\* str.upper() on one character
UpperChar(c) ==
    IF \E i \in DOMAIN LowerCase : LowerCase[i] = c
    THEN UpperCase[CHOOSE i \in DOMAIN LowerCase : LowerCase[i] = c]
    ELSE c

\* str.upper()
upper(v) == [i \in DOMAIN v |-> UpperChar(v[i])]

\* the characters str.strip() removes
Whitespace == {" ", "\t", "\n", "\r"}

RECURSIVE lstrip(_)
lstrip(v) ==
    IF v # <<>> /\ Head(v) \in Whitespace THEN lstrip(Tail(v)) ELSE v

RECURSIVE rstrip(_)
rstrip(v) ==
    IF v # <<>> /\ v[Len(v)] \in Whitespace
    THEN rstrip(SubSeq(v, 1, Len(v) - 1))
    ELSE v

\* str.strip()
strip(v) == rstrip(lstrip(v))

\* ----------------------------------------------------------------- Path

\* Path(s): the parts of s, without the empty and the "." parts
Path(raw) == SelectSeq(raw, LAMBDA part : part \notin {"", "."})

\* Path.parent
parent(p) == IF p = <<>> THEN p ELSE SubSeq(p, 1, Len(p) - 1)

\* p / name
Join(p, name) == Path(Append(p, name))

\* str(p)
RECURSIVE PathStr(_)
PathStr(p) ==
    IF p = <<>> THEN "/"
    ELSE IF Len(p) = 1 THEN "/" \o p[1]
    ELSE PathStr(SubSeq(p, 1, Len(p) - 1)) \o "/" \o p[Len(p)]

\* __file__ of the module, split at "/"
ModuleFile == <<"", "opt", "mirugai", "mirugai", "settings.py">>

get_default_root_dir == parent(parent(Path(ModuleFile)))

\* the path get_default_env_file() returns
DefaultEnvFile == Join(get_default_root_dir, ".env")

\* the message get_default_env_file() logs when the file is missing
EnvFileWarning == PathStr(DefaultEnvFile) \o " does not exist"

\* --------------------------------------------------------------- fields

FieldOrder == <<"app_name", "app_tagline", "root_dir", "app_logo_image", "log_level">>

Fields == {FieldOrder[i] : i \in DOMAIN FieldOrder}

PathFields == {"root_dir", "app_logo_image"}

\* variant: the factory forgets the file name
app_logo_image_default_NoJoin == get_default_root_dir

app_logo_image_default == Join(get_default_root_dir, "logo.jpg")

\* the field defaults and default factories
Defaults ==
    [app_name       |-> <<"m","i","r","u","g","a","i">>,
     app_tagline    |-> <<"L","e","t","'","s"," ","m","a","k","e"," ",
                          "s","o","m","e"," ","c","l","a","m","s">>,
     root_dir       |-> get_default_root_dir,
     app_logo_image |-> app_logo_image_default,
     log_level      |-> <<"I","N","F","O">>]

\* ------------------------------------------------------------ validators

Raise(args) == [ok |-> FALSE, args |-> args]

Return(v) == [ok |-> TRUE, value |-> v]

\* variant: the emptiness test without strip()
validate_str_not_empty_NoStrip(v) ==
    IF v = <<>>
    THEN Raise(<<"app_name must not be empty">>)
    ELSE Return(v)

validate_str_not_empty(v) ==
    IF strip(v) = <<>>
    THEN Raise(<<"app_name must not be empty">>)
    ELSE Return(v)

\* variant: the list also holds the WARN of the class docstring
LogLevels_WithWarn ==
    {<<"D","E","B","U","G">>, <<"I","N","F","O">>, <<"W","A","R","N","I","N","G">>,
     <<"E","R","R","O","R">>, <<"C","R","I","T","I","C","A","L">>, <<"W","A","R","N">>}

LogLevels ==
    {<<"D","E","B","U","G">>, <<"I","N","F","O">>, <<"W","A","R","N","I","N","G">>,
     <<"E","R","R","O","R">>, <<"C","R","I","T","I","C","A","L">>}

\* variant: the validator returns the upper-cased value
validate_log_level_Upper(v) ==
    IF upper(v) \notin LogLevels
    THEN Raise(<<"log_level must be one of DEBUG, INFO, WARNING, ERROR", "CRITICAL">>)
    ELSE Return(upper(v))

validate_log_level(v) ==
    IF upper(v) \notin LogLevels
    THEN Raise(<<"log_level must be one of DEBUG, INFO, WARNING, ERROR", "CRITICAL">>)
    ELSE Return(v)

\* variant: the existence test inverted
validate_path_exists_Inverted(v) ==
    IF v \in fs
    THEN Raise(<<PathStr(v) \o " does not exist">>)
    ELSE Return(v)

validate_path_exists(v) ==
    IF v \notin fs
    THEN Raise(<<PathStr(v) \o " does not exist">>)
    ELSE Return(v)

\* the validator registered for field f; a field without one passes through
field_validator(f, v) ==
    CASE f = "app_name"  -> validate_str_not_empty(v)
      [] f = "log_level" -> validate_log_level(v)
      [] f = "root_dir"  -> validate_path_exists(v)
      [] OTHER           -> Return(v)

\* ---------------------------------------------------------- construction

NoInstance == [f \in {} |-> <<>>]

\* what the environment file contributes: nothing when it is not on disk
DotenvVars == IF DefaultEnvFile \in fs THEN dotenv ELSE NoInstance

\* the sources in which field f is given, by priority: keyword arguments,
\* environment variables, environment file
Supplied(kw, f) ==
    f \in DOMAIN kw \/ f \in DOMAIN environ \/ f \in DOMAIN DotenvVars

\* variant: the environment file overrides the environment variables
RawValue_FileFirst(kw, f) ==
    IF f \in DOMAIN kw THEN kw[f]
    ELSE IF f \in DOMAIN DotenvVars THEN DotenvVars[f]
    ELSE environ[f]

RawValue(kw, f) ==
    IF f \in DOMAIN kw THEN kw[f]
    ELSE IF f \in DOMAIN environ THEN environ[f]
    ELSE DotenvVars[f]

\* the annotation's conversion: Path fields are parsed, str fields kept
Coerce(f, raw) == IF f \in PathFields THEN Path(raw) ELSE raw

\* the outcome of field f: a supplied value is converted and validated, a
\* missing one takes the default, which is not validated
FieldOutcome(kw, f) ==
    IF Supplied(kw, f)
    THEN field_validator(f, Coerce(f, RawValue(kw, f)))
    ELSE Return(Defaults[f])

\* the errors of the fields FieldOrder[i..], in declaration order
RECURSIVE ErrorsFrom(_, _)
ErrorsFrom(kw, i) ==
    IF i > Len(FieldOrder) THEN <<>>
    ELSE LET f == FieldOrder[i]
             o == FieldOutcome(kw, f)
         IN  (IF o.ok THEN <<>> ELSE <<[loc |-> f, args |-> o.args]>>)
             \o ErrorsFrom(kw, i + 1)

ValidationErrors(kw) == ErrorsFrom(kw, 1)

\* variant: the fields that passed are returned although others failed
Validated_Partial(kw) ==
    [f \in {g \in Fields : FieldOutcome(kw, g).ok} |-> FieldOutcome(kw, f).value]

\* the instance Settings(**kw) returns, or none when a validator raised
Validated(kw) ==
    IF ValidationErrors(kw) = <<>>
    THEN [f \in Fields |-> FieldOutcome(kw, f).value]
    ELSE NoInstance

\* ---------------------------------------------------------------- inputs

AppNames == {<<>>, <<" ">>, <<"\t">>, <<" ","x"," ">>}

Taglines == {<<"h","i">>}

RootDirs == {<<"", "srv", "app", "">>, <<"", "tmp", "gone">>}

LogoImages == {<<"", "srv", "logo.png">>}

LevelInputs ==
    {<<"i","n","f","o">>, <<"I","n","f","o">>, <<"C","R","I","T","I","C","A","L">>,
     <<"W","A","R","N">>, <<"t","r","a","c","e">>}

InputValues(f) ==
    CASE f = "app_name"       -> AppNames
      [] f = "app_tagline"    -> Taglines
      [] f = "root_dir"       -> RootDirs
      [] f = "app_logo_image" -> LogoImages
      [] f = "log_level"      -> LevelInputs

AllInputs == UNION {InputValues(f) : f \in Fields}

\* the key/value mappings with at most MaxKeys keys
AllMappings ==
    UNION {{m \in [S -> AllInputs] : \A f \in S : m[f] \in InputValues(f)} :
             S \in {T \in SUBSET Fields : Cardinality(T) <= MaxKeys}}

Size(m) == Cardinality(DOMAIN m)

MappingsUpTo == [n \in 0..MaxKeys |-> {m \in AllMappings : Size(m) <= n}]

\* the key/value mappings with at most n keys
Mappings(n) == MappingsUpTo[n]

\* the directories an environment may hold besides the installation
Directories == {Path(r) : r \in RootDirs}

\* ------------------------------------------------------------------ Init

Init ==
    /\ pc = "start"
    /\ \E dirs \in SUBSET Directories, hasFile \in BOOLEAN :
         fs = {get_default_root_dir} \cup dirs
                \cup (IF hasFile THEN {DefaultEnvFile} ELSE {})
    /\ environ \in AllMappings
    /\ dotenv \in Mappings(MaxKeys - Size(environ))
    /\ DefaultEnvFile \notin fs => dotenv = NoInstance
    /\ warnings = <<>>
    /\ kwargs = NoInstance
    /\ result = "none"
    /\ instance = NoInstance
    /\ built = NoInstance
    /\ errors = <<>>

\* --------------------------------------------------------------- actions

\* variant: the warning is logged when the file is there
get_default_env_file_log_Inverted ==
    IF DefaultEnvFile \in fs THEN <<EnvFileWarning>> ELSE <<>>

\* what get_default_env_file() logs
get_default_env_file_log ==
    IF DefaultEnvFile \notin fs THEN <<EnvFileWarning>> ELSE <<>>

\* the module is imported: the class body of Settings runs, and Config calls
\* get_default_env_file() once
Import ==
    /\ pc = "start"
    /\ pc' = "loaded"
    /\ warnings' = warnings \o get_default_env_file_log
    /\ UNCHANGED <<fs, environ, dotenv, kwargs, result, instance, built, errors>>

\* the environment: the file is deleted before Settings is constructed
RemoveEnvFile ==
    /\ result = "none"
    /\ DefaultEnvFile \in fs
    /\ fs' = fs \ {DefaultEnvFile}
    /\ dotenv' = NoInstance
    /\ UNCHANGED <<pc, environ, warnings, kwargs, result, instance, built, errors>>

\* the environment: the file is written before Settings is constructed
CreateEnvFile ==
    /\ result = "none"
    /\ DefaultEnvFile \notin fs
    /\ fs' = fs \cup {DefaultEnvFile}
    /\ dotenv' \in Mappings(MaxKeys - Size(environ))
    /\ UNCHANGED <<pc, environ, warnings, kwargs, result, instance, built, errors>>

\* Settings(**kw), the one construction of the process
Construct ==
    /\ pc = "loaded"
    /\ result = "none"
    /\ \E kw \in Mappings(MaxKeys - Size(environ) - Size(dotenv)) :
         LET errs == ValidationErrors(kw)
             made == Validated(kw)
         IN  /\ kwargs' = kw
             /\ errors' = errs
             /\ instance' = made
             /\ built' = made
             /\ result' = IF made = NoInstance THEN "failed" ELSE "ok"
    /\ UNCHANGED <<pc, fs, environ, dotenv, warnings>>

\* the values a holder of the instance assigns
Assignable ==
    [app_name  |-> <<>>,
     log_level |-> <<"t","r","a","c","e">>,
     root_dir  |-> <<"tmp", "gone">>]

\* instance.f = v: the model is not frozen and does not validate assignment
Assign ==
    /\ result = "ok"
    /\ instance # NoInstance
    /\ \E f \in DOMAIN Assignable :
         instance' = [instance EXCEPT ![f] = Assignable[f]]
    /\ UNCHANGED <<pc, fs, environ, dotenv, warnings, kwargs, result, built, errors>>

Next == Import \/ RemoveEnvFile \/ CreateEnvFile \/ Construct \/ Assign

Spec == Init /\ [][Next]_vars

\* ---------------------------------------------------------------- claims

\* the five levels, as the specification lists them
FiveLevels ==
    {<<"D","E","B","U","G">>, <<"I","N","F","O">>, <<"W","A","R","N","I","N","G">>,
     <<"E","R","R","O","R">>, <<"C","R","I","T","I","C","A","L">>}

\* v is empty or holds whitespace only
Blank(v) == \A i \in DOMAIN v : v[i] \in {" ", "\t", "\n", "\r"}

Attempted == result # "none"

Given(f) == Supplied(kwargs, f)

GivenValue(f) == RawValue(kwargs, f)

NameFails == Given("app_name") /\ Blank(GivenValue("app_name"))

LevelFails == Given("log_level") /\ upper(GivenValue("log_level")) \notin FiveLevels

RootFails == Given("root_dir") /\ Path(GivenValue("root_dir")) \notin fs

HasError(f) == \E i \in DOMAIN errors : errors[i].loc = f

HasErrorWith(f, args) ==
    \E i \in DOMAIN errors : errors[i].loc = f /\ errors[i].args = args

\* C1: a constructed Settings holds, for each field not given as a keyword
\* argument, the environment variable's value if set, otherwise the value of
\* the environment file if the file exists and has the key, otherwise the
\* default.
C1_Precedence ==
    result = "ok" =>
      \A f \in Fields \ DOMAIN kwargs :
        built[f] = IF f \in DOMAIN environ THEN Coerce(f, environ[f])
                   ELSE IF DefaultEnvFile \in fs /\ f \in DOMAIN dotenv
                        THEN Coerce(f, dotenv[f])
                   ELSE Defaults[f]

C1_Witness ==
    /\ result = "ok"
    /\ DefaultEnvFile \in fs
    /\ \E f \in (DOMAIN environ \cap DOMAIN dotenv) \ DOMAIN kwargs :
         /\ environ[f] # dotenv[f]
         /\ built[f] = Coerce(f, environ[f])

\* C2: a supplied log_level whose upper-cased form is one of the five levels
\* raises no log_level error, construction succeeds when the other fields
\* are valid, and the stored log_level is the supplied string, case kept.
C2_CasePreserved ==
    (Attempted /\ Given("log_level")
       /\ upper(GivenValue("log_level")) \in FiveLevels) =>
      /\ ~HasError("log_level")
      /\ (~NameFails /\ ~RootFails) => result = "ok"
      /\ result = "ok" => built.log_level = GivenValue("log_level")

C2_Witness ==
    /\ result = "ok"
    /\ Given("log_level")
    /\ GivenValue("log_level") = <<"I","n","f","o">>
    /\ built.log_level = <<"I","n","f","o">>

C4_AppNameNotEmpty ==
    (Attempted /\ Given("app_name")) =>
      IF Blank(GivenValue("app_name"))
      THEN /\ result = "failed"
           /\ instance = NoInstance
           /\ HasErrorWith("app_name", <<"app_name must not be empty">>)
      ELSE /\ ~HasError("app_name")
           /\ (~LevelFails /\ ~RootFails) => result = "ok"
           /\ result = "ok" => built.app_name = GivenValue("app_name")

C4_Witness ==
    /\ result = "failed"
    /\ Given("app_name")
    /\ GivenValue("app_name") = <<"\t">>
    /\ HasErrorWith("app_name", <<"app_name must not be empty">>)

\* C5: a supplied root_dir that does not exist fails with "<path> does not
\* exist"; one that exists raises no root_dir error and construction
\* succeeds when the other fields are valid.
C5_RootDirExists ==
    (Attempted /\ Given("root_dir")) =>
      LET p == Path(GivenValue("root_dir"))
      IN  IF p \notin fs
          THEN /\ result = "failed"
               /\ instance = NoInstance
               /\ HasErrorWith("root_dir", <<PathStr(p) \o " does not exist">>)
          ELSE /\ ~HasError("root_dir")
               /\ (~NameFails /\ ~LevelFails) => (result = "ok" /\ built.root_dir = p)

C5_Witness ==
    /\ result = "failed"
    /\ Given("root_dir")
    /\ Path(GivenValue("root_dir")) \notin fs
    /\ HasErrorWith("root_dir", <<"/tmp/gone does not exist">>)

\* C6: construction is all or nothing: if app_name, log_level or root_dir
\* fails, there is no instance and an error names a failing field; if none
\* fails, the instance has all five fields.
C6_AllOrNothing ==
    Attempted =>
      IF NameFails \/ LevelFails \/ RootFails
      THEN /\ result = "failed"
           /\ instance = NoInstance
           /\ built = NoInstance
           /\ \/ NameFails /\ HasError("app_name")
              \/ LevelFails /\ HasError("log_level")
              \/ RootFails /\ HasError("root_dir")
      ELSE /\ result = "ok"
           /\ errors = <<>>
           /\ DOMAIN built = Fields
           /\ DOMAIN instance = Fields

C6_Witness ==
    /\ result = "failed"
    /\ NameFails
    /\ ~LevelFails
    /\ ~RootFails
    /\ Given("log_level")
    /\ instance = NoInstance

\* C7: a constructed instance is immutable: whatever its holder does,
\* assignment to a field included, every field keeps the value it had at
\* construction and the field constraints keep holding.
C7_Immutable ==
    result = "ok" =>
      /\ instance = built
      /\ ~Blank(instance.app_name)
      /\ upper(instance.log_level) \in FiveLevels

NoSources ==
    /\ DefaultEnvFile \notin fs
    /\ environ = NoInstance
    /\ kwargs = NoInstance

\* the five defaults, as the specification states them
StatedDefaults ==
    [app_name       |-> <<"m","i","r","u","g","a","i">>,
     app_tagline    |-> <<"L","e","t","'","s"," ","m","a","k","e"," ",
                          "s","o","m","e"," ","c","l","a","m","s">>,
     root_dir       |-> <<"opt", "mirugai">>,
     app_logo_image |-> <<"opt", "mirugai", "logo.jpg">>,
     log_level      |-> <<"I","N","F","O">>]

\* C8 as stated: with no environment file and no environment variable set,
\* construction succeeds with the five defaults and the warning
\* "<path> does not exist" has been emitted.
C8_WarnedAtConstruction ==
    (Attempted /\ NoSources) =>
      /\ result = "ok"
      /\ built = StatedDefaults
      /\ \E i \in DOMAIN warnings : warnings[i] = EnvFileWarning

\* C8 as amended: with no environment file and no environment variable set,
\* construction succeeds with the five defaults; the warning is emitted
\* when the module is imported, once, if and only if the file is missing
\* then, and no later step emits anything.
C8_WarnedAtImport ==
    [][/\ (pc = "start" /\ pc' = "loaded") =>
            warnings' = IF DefaultEnvFile \notin fs
                        THEN <<"/opt/mirugai/.env does not exist">>
                        ELSE <<>>
       /\ pc = "loaded" => warnings' = warnings
       /\ (result' # "none" /\ NoSources') =>
            (result' = "ok" /\ built' = StatedDefaults)]_vars

C8_Witness ==
    /\ result = "ok"
    /\ NoSources
    /\ built = StatedDefaults
    /\ warnings = <<>>

LogoNotGiven == ~Given("app_logo_image")

\* C9 as stated: an app_logo_image that is not supplied is the instance's
\* root_dir joined with "logo.jpg", also when root_dir is overridden.
C9_LogoUnderRootDir ==
    (result = "ok" /\ LogoNotGiven) =>
      built.app_logo_image = Join(built.root_dir, "logo.jpg")

\* C9 as amended: an app_logo_image that is not supplied is the default
\* root directory joined with "logo.jpg", whatever root_dir is.
C9_LogoUnderDefaultRoot ==
    (result = "ok" /\ LogoNotGiven) =>
      built.app_logo_image = <<"opt", "mirugai", "logo.jpg">>

C9_Witness ==
    /\ result = "ok"
    /\ LogoNotGiven
    /\ built.root_dir = <<"srv", "app">>
    /\ built.app_logo_image = <<"opt", "mirugai", "logo.jpg">>

\* C10: every validation error carries one of three messages: "app_name
\* must not be empty", "log_level must be one of DEBUG, INFO, WARNING,
\* ERROR, CRITICAL" as a single message, "<path> does not exist".
C10_Messages ==
    \A i \in DOMAIN errors :
      errors[i].args =
        CASE errors[i].loc = "app_name" -> <<"app_name must not be empty">>
          [] errors[i].loc = "log_level" ->
               <<"log_level must be one of DEBUG, INFO, WARNING, ERROR, CRITICAL">>
          [] OTHER ->
               <<PathStr(Path(GivenValue("root_dir"))) \o " does not exist">>

====
